---- MODULE Spec2Model ----
(***************************************************************************)
(* Model of the dynamic memory manager of src/dyn_mem/dyn_mem.c: a         *)
(* first-fit allocator whose free list is embedded in the memory regions   *)
(* it manages.                                                             *)
(*                                                                         *)
(* Memory is a byte map.  A block header is two machine words (next, size) *)
(* stored little-endian in that map, exactly where the code stores them;   *)
(* the static start_block lives in the same map at StartBlockAddr.  The    *)
(* target is the 32-bit layout the code is written for (4-byte pointers    *)
(* and size_t, so a header is 8 bytes), with the width of a byte narrowed  *)
(* to CHAR_BIT bits so that every word fits a TLC integer; all arithmetic  *)
(* on size_t and on addresses is taken modulo 2^(4*CHAR_BIT).              *)
(***************************************************************************)
EXTENDS Integers, Sequences, FiniteSets, TLC

\* ------------------------------------------------------------------ bounds
CHAR_BIT == 4           \* bits in a byte of the modelled machine
MaxLive  == 3           \* most allocations the caller holds at one time
MaxDrift == 3           \* the caller stops allocating once the free-byte
                        \* counter is more than this many alignment units
                        \* off the bytes that are free

\* ------------------------------------------------------- program constants
NULL == 0
SizeofWord == 4                         \* sizeof(size_t) == sizeof(void *)
SizeofMemBlock == 2 * SizeofWord        \* sizeof(mem_block_t)
MEM_ALIGN_NUM == 4
MEM_ALIGN_BITS == MEM_ALIGN_NUM - 1

ByteMod == 2 ^ CHAR_BIT
WordMod == 2 ^ (SizeofWord * CHAR_BIT)
TopBit  == 2 ^ (SizeofWord * CHAR_BIT - 1)

\* x & bit # 0, x & ~bit and x | bit for a mask of at most one bit
HasBit(x, bit) == bit # 0 /\ (x \div bit) % 2 = 1
ClearBit(x, bit) == IF HasBit(x, bit) THEN x - bit ELSE x
SetBit(x, bit) == IF HasBit(x, bit) THEN x ELSE (x + bit) % WordMod

\* x & ~MEM_ALIGN_BITS
AlignDown(x) == x - (x % MEM_ALIGN_NUM)
MEM_ALIGN(x) == AlignDown((x + MEM_ALIGN_BITS) % WordMod)
MEM_BLOCK_META_SIZE == MEM_ALIGN(SizeofMemBlock)

\* address of the static start_block; it lies outside every region
StartBlockAddr == MEM_ALIGN_NUM

\* ------------------------------------------------------------------ memory
\* A memory is a function from the addresses of its non-zero bytes to their
\* values; every other byte is zero.
Peek(m, a) == IF a \in DOMAIN m THEN m[a] ELSE 0

StoreBytes(m, a, bytes) ==
    LET n == Len(bytes)
        dom == DOMAIN m \cup {(a + i) % WordMod : i \in 0..(n - 1)}
        val(x) == IF \E i \in 0..(n - 1) : x = (a + i) % WordMod
                  THEN bytes[((x - a) % WordMod) + 1]
                  ELSE m[x]
    IN  [x \in {y \in dom : val(y) # 0} |-> val(x)]

WordBytes(v) == [i \in 1..SizeofWord |-> (v \div (ByteMod ^ (i - 1))) % ByteMod]

Load(m, a) ==
    Peek(m, a) + ByteMod * Peek(m, (a + 1) % WordMod)
    + ByteMod * ByteMod * Peek(m, (a + 2) % WordMod)
    + ByteMod * ByteMod * ByteMod * Peek(m, (a + 3) % WordMod)

Store(m, a, v) == StoreBytes(m, a, WordBytes(v))

\* fields of the mem_block_t at address b
NextOf(m, b) == Load(m, b)
SizeOf(m, b) == Load(m, (b + SizeofWord) % WordMod)
SetNext(m, b, v) == Store(m, b, v)
SetSize(m, b, v) == Store(m, (b + SizeofWord) % WordMod, v)

MEM_MEMSET(m, dst, n) == StoreBytes(m, dst, [i \in 1..n |-> 0])
MEM_MEMCPY(m, dst, src, n) ==
    StoreBytes(m, dst, [i \in 1..n |-> Peek(m, (src + i - 1) % WordMod)])

\* The C state: the byte map and the static variables of the file, with the
\* return value of the call in progress and a flag raised when the code
\* dereferences NULL or walks a list that never ends.
StateOf(m, eb, ab, av, rc) ==
    [mem |-> m, end_block |-> eb, mem_alloc_bit |-> ab,
     mem_available_bytes |-> av, mem_regions_count |-> rc,
     ret |-> NULL, fault |-> FALSE]

\* longest list walk in a well-formed heap: one step per header
WalkFuel(m) == Cardinality(DOMAIN m) + 2

\* --------------------------------------------------------- insert_free_block
\* the walk that stays at the head of the list
InsertWalkStays(m, curr, nb, fuel) == curr

RECURSIVE InsertWalk(_, _, _, _)
InsertWalk(m, curr, nb, fuel) ==
    IF fuel = 0 THEN NULL
    ELSE IF curr # NULL /\ NextOf(m, curr) < nb
         THEN InsertWalk(m, NextOf(m, curr), nb, fuel - 1)
         ELSE curr

\* no two blocks are ever taken to touch
ContiguousNever(m, curr, nb) == FALSE

\* blocks with one header between them are taken to touch as well
ContiguousPastHeader(m, curr, nb) ==
    \/ (curr + SizeOf(m, curr)) % WordMod = nb
    \/ (curr + SizeOf(m, curr) + MEM_BLOCK_META_SIZE) % WordMod = nb

\* (uint8_t *)curr + curr->size == (uint8_t *)nb
Contiguous(m, curr, nb) == (curr + SizeOf(m, curr)) % WordMod = nb

\* if (curr != nb) curr->next = nb
InsertLink(g, m, curr, nb) ==
    [g EXCEPT !.mem = IF curr # nb THEN SetNext(m, curr, nb) ELSE m]

\* nb->next = curr->next->next
InsertSkipNext(m, curr, nb) == SetNext(m, nb, NextOf(m, NextOf(m, curr)))

\* the block after is linked, not merged
InsertJoinNextLinkOnly(m, curr, nb) == SetNext(m, nb, NextOf(m, curr))

\* nb->size += curr->next->size, then the link past curr->next
InsertJoinNext(m, curr, nb) ==
    InsertSkipNext(SetSize(m, nb, (SizeOf(m, nb) + SizeOf(m, NextOf(m, curr))) % WordMod),
                   curr, nb)

\* the block after: merged into nb when it starts where nb ends, unless it is
\* end_block
InsertRight(g, m, curr, nb) ==
    IF Contiguous(m, nb, NextOf(m, curr))
    THEN IF NextOf(m, curr) = g.end_block
         THEN InsertLink(g, SetNext(m, nb, g.end_block), curr, nb)
         ELSE InsertLink(g, InsertJoinNext(m, curr, nb), curr, nb)
    ELSE InsertLink(g, SetNext(m, nb, NextOf(m, curr)), curr, nb)

\* the block before: nb is merged into curr when it starts where curr ends
InsertLeft(g, curr, nb) ==
    IF curr = NULL THEN [g EXCEPT !.fault = TRUE]
    ELSE IF Contiguous(g.mem, curr, nb)
         THEN InsertRight(g, SetSize(g.mem, curr,
                                     (SizeOf(g.mem, curr) + SizeOf(g.mem, nb)) % WordMod),
                          curr, curr)
         ELSE InsertRight(g, g.mem, curr, nb)

insert_free_block(g, nb) ==
    InsertLeft(g, InsertWalk(g.mem, StartBlockAddr, nb, WalkFuel(g.mem)), nb)

\* ------------------------------------------------------------------ mem_init
Region(a, s) == [start_addr |-> a, size |-> s]

RegionsOrdered(regions) ==
    \A i \in 1..Len(regions) :
        LET prev == IF i = 1 THEN Region(0, 0) ELSE regions[i - 1]
        IN  ~ ((prev.start_addr + prev.size) % WordMod > regions[i].start_addr)

\* start address and size of a region after the alignment steps
AlignedStartAsGiven(r) == r.start_addr

AlignedStart(r) ==
    IF r.start_addr % MEM_ALIGN_NUM # 0
    THEN r.start_addr + (MEM_ALIGN_NUM - (r.start_addr % MEM_ALIGN_NUM))
    ELSE r.start_addr
AlignedSize(r) == AlignDown(r.size - (AlignedStart(r) - r.start_addr))

\* the size test before the alignment steps only
RegionUsedRawSize(r) == ~ (r.size < MEM_BLOCK_META_SIZE + MEM_ALIGN_NUM)

RegionUsed(r) ==
    /\ ~ (r.size < MEM_BLOCK_META_SIZE + MEM_ALIGN_NUM)
    /\ ~ (AlignedSize(r) < MEM_BLOCK_META_SIZE + MEM_ALIGN_NUM)

InitRegion(g, r) ==
    IF ~ RegionUsed(r) THEN g
    ELSE
    LET mem_start_addr == AlignedStart(r)
        mem_size       == AlignedSize(r)
        m0 == g.mem
        m1 == IF g.end_block = NULL
              THEN SetSize(SetNext(m0, StartBlockAddr, mem_start_addr), StartBlockAddr, 0)
              ELSE m0
        prev_end_block == g.end_block
        eb == mem_start_addr + mem_size - MEM_BLOCK_META_SIZE
        m2 == SetSize(SetNext(m1, eb, NULL), eb, 0)
        first_block == mem_start_addr
        m3 == SetSize(SetNext(m2, first_block, eb), first_block,
                      mem_size - MEM_BLOCK_META_SIZE)
        m4 == IF prev_end_block # NULL THEN SetNext(m3, prev_end_block, first_block) ELSE m3
    IN  [g EXCEPT !.mem = m4,
                  !.end_block = eb,
                  !.mem_available_bytes = (@ + SizeOf(m4, first_block)) % WordMod,
                  !.mem_regions_count = @ + 1]

RECURSIVE InitRegions(_, _, _)
InitRegions(g, regions, i) ==
    IF i > Len(regions) THEN g
    ELSE InitRegions(InitRegion(g, regions[i]), regions, i + 1)

\* mem_init without the test of end_block
mem_init_again(g, regions) ==
    IF ~ RegionsOrdered(regions) THEN [g EXCEPT !.ret = 0]
    ELSE LET h == InitRegions(g, regions, 1)
         IN  [h EXCEPT !.mem_alloc_bit = TopBit, !.ret = h.mem_regions_count]

mem_init(g, regions) ==
    IF g.end_block # NULL THEN [g EXCEPT !.ret = 0]
    ELSE IF ~ RegionsOrdered(regions) THEN [g EXCEPT !.ret = 0]
    ELSE LET h == InitRegions(g, regions, 1)
         IN  [h EXCEPT !.mem_alloc_bit = TopBit, !.ret = h.mem_regions_count]

\* ---------------------------------------------------------------- mem_malloc
\* the first-fit walk: the block found and its predecessor on the list, or
\* found = FALSE when the walk returns NULL
NoFit(hang) == [found |-> FALSE, prev |-> NULL, curr |-> NULL, hang |-> hang]

\* the walk with <= in place of <
RECURSIVE FindFitSkipsExact(_, _, _, _, _, _)
FindFitSkipsExact(m, eb, prev, curr, size, fuel) ==
    IF SizeOf(m, curr) <= size
    THEN IF NextOf(m, curr) = NULL \/ curr = eb
         THEN NoFit(FALSE)
         ELSE IF fuel = 0 THEN NoFit(TRUE)
         ELSE FindFitSkipsExact(m, eb, curr, NextOf(m, curr), size, fuel - 1)
    ELSE [found |-> TRUE, prev |-> prev, curr |-> curr, hang |-> FALSE]

RECURSIVE FindFit(_, _, _, _, _, _)
FindFit(m, eb, prev, curr, size, fuel) ==
    IF SizeOf(m, curr) < size
    THEN IF NextOf(m, curr) = NULL \/ curr = eb
         THEN NoFit(FALSE)
         ELSE IF fuel = 0 THEN NoFit(TRUE)
         ELSE FindFit(m, eb, curr, NextOf(m, curr), size, fuel - 1)
    ELSE [found |-> TRUE, prev |-> prev, curr |-> curr, hang |-> FALSE]

MallocRejectsZeroOnly(g, size) == g.end_block = NULL \/ size = 0

MallocRejects(g, size) ==
    g.end_block = NULL \/ size = 0 \/ HasBit(size, g.mem_alloc_bit)

MallocNeed(size) == (MEM_ALIGN(size) + MEM_BLOCK_META_SIZE) % WordMod

MallocSplits(csize, size) == (csize - size) % WordMod > 2 * MEM_BLOCK_META_SIZE

SplitRestWhole(csize, size) == csize

\* next->size = curr->size - size
SplitRest(csize, size) == (csize - size) % WordMod

\* mem_available_bytes -= size
MallocCharge(csize, size) == size

\* the block goes out without the tag
MallocMarkNoTag(g, curr, charge, retval) ==
    [g EXCEPT !.mem = SetNext(g.mem, curr, NULL),
              !.mem_available_bytes = (@ - charge) % WordMod,
              !.ret = retval]

\* curr->size |= mem_alloc_bit; curr->next = NULL; the charge; return retval
MallocMark(g, curr, charge, retval) ==
    [g EXCEPT !.mem = SetNext(SetSize(g.mem, curr,
                                      SetBit(SizeOf(g.mem, curr), g.mem_alloc_bit)),
                              curr, NULL),
              !.mem_available_bytes = (@ - charge) % WordMod,
              !.ret = retval]

\* the rest of curr becomes a free block when it is larger than two headers
MallocSplit(g, curr, size) ==
    IF MallocSplits(SizeOf(g.mem, curr), size)
    THEN insert_free_block(
           [g EXCEPT !.mem = SetSize(SetSize(g.mem, (curr + size) % WordMod,
                                             SplitRest(SizeOf(g.mem, curr), size)),
                                     curr, size)],
           (curr + size) % WordMod)
    ELSE g

\* prev->next = curr->next
MallocUnlink(g, prev, curr) ==
    [g EXCEPT !.mem = SetNext(g.mem, prev, NextOf(g.mem, curr))]

\* g: the state with curr off the list
MallocTake(g, curr, size, retval) ==
    MallocMark(MallocSplit(g, curr, size), curr,
               MallocCharge(SizeOf(g.mem, curr), size), retval)

MallocFound(g, fit, size) ==
    IF ~ fit.found THEN [g EXCEPT !.ret = NULL, !.fault = fit.hang]
    ELSE MallocTake(MallocUnlink(g, fit.prev, fit.curr), fit.curr, size,
                    (NextOf(g.mem, fit.prev) + MEM_BLOCK_META_SIZE) % WordMod)

\* size: the aligned size with the header
MallocSized(g, size) ==
    IF HasBit(size, g.mem_alloc_bit) THEN [g EXCEPT !.ret = NULL]
    ELSE MallocFound(g,
                     FindFit(g.mem, g.end_block, StartBlockAddr,
                             NextOf(g.mem, StartBlockAddr), size, WalkFuel(g.mem)),
                     size)

mem_malloc(g, size0) ==
    IF MallocRejects(g, size0) THEN [g EXCEPT !.ret = NULL]
    ELSE MallocSized(g, MallocNeed(size0))

\* ------------------------------------------------------------------ mem_free
FreeAccepts(g, block) ==
    HasBit(SizeOf(g.mem, block), g.mem_alloc_bit) /\ NextOf(g.mem, block) = NULL

mem_free(g, ptr) ==
    IF ptr = NULL THEN g
    ELSE
    LET block == (ptr - MEM_BLOCK_META_SIZE) % WordMod
    IN  IF FreeAccepts(g, block)
        THEN LET sz == ClearBit(SizeOf(g.mem, block), g.mem_alloc_bit)
                 g1 == [g EXCEPT !.mem = SetSize(g.mem, block, sz),
                                 !.mem_available_bytes = (@ + sz) % WordMod]
             IN  insert_free_block(g1, block)
        ELSE g

\* ---------------------------------------------------------------- mem_calloc
\* r: the state mem_malloc returned
CallocClear(r, size) ==
    IF r.ret # NULL
    THEN [r EXCEPT !.mem = MEM_MEMSET(r.mem, r.ret, size)]
    ELSE r

mem_calloc(g, nitems, size0) ==
    CallocClear(mem_malloc(g, (size0 * nitems) % WordMod), (size0 * nitems) % WordMod)

\* --------------------------------------------------------------- mem_realloc
ReallocCopyLenLessMeta(old_size, size) ==
    IF old_size > size THEN size ELSE old_size - 2 * MEM_BLOCK_META_SIZE

\* old_size > size ? size : old_size
ReallocCopyLen(old_size, size) == IF old_size > size THEN size ELSE old_size

ReallocReleasesAlways(new_ptr) == TRUE
ReallocReleasesNever(new_ptr) == FALSE

\* if (new_ptr != NULL): copy and free the old block
ReallocReleases(new_ptr) == new_ptr # NULL

\* r: the state mem_malloc returned, r.ret the new pointer
ReallocMove(r, ptr, old_size, size) ==
    IF ReallocReleases(r.ret)
    THEN [mem_free([r EXCEPT !.mem = MEM_MEMCPY(r.mem, r.ret, ptr,
                                                ReallocCopyLen(old_size, size))],
                   ptr)
          EXCEPT !.ret = r.ret]
    ELSE r

mem_realloc(g, ptr, size) ==
    IF size = 0
    THEN [(IF ptr # NULL THEN mem_free(g, ptr) ELSE g) EXCEPT !.ret = NULL]
    ELSE IF ptr = NULL THEN mem_malloc(g, size)
    ELSE ReallocMove(mem_malloc(g, size), ptr,
                     ClearBit(SizeOf(g.mem, (ptr - MEM_BLOCK_META_SIZE) % WordMod),
                              g.mem_alloc_bit),
                     size)

\* ===================================================================== state
VARIABLES
    mem,                    \* the bytes of start_block and of the regions
    end_block,
    mem_alloc_bit,
    mem_available_bytes,
    mem_regions_count,
    fault,                  \* the code dereferenced NULL or never returned
    heap_regions,           \* the array the accepted mem_init call was given
    avail_init,             \* mem_available_bytes when that call returned
    live,                   \* pointer -> requested size, allocations held
    freed,                  \* dangling pointers the caller kept: pointer ->
                            \* size of the block released, the call that
                            \* released it, whether the pointer has been
                            \* handed out again since
    last                    \* the latest call: operation and result

cvars == <<mem, end_block, mem_alloc_bit, mem_available_bytes, mem_regions_count>>
vars == <<mem, end_block, mem_alloc_bit, mem_available_bytes, mem_regions_count,
          fault, heap_regions, avail_init, live, freed, last>>

G == StateOf(mem, end_block, mem_alloc_bit, mem_available_bytes, mem_regions_count)

Commit(r) ==
    /\ mem' = r.mem
    /\ end_block' = r.end_block
    /\ mem_alloc_bit' = r.mem_alloc_bit
    /\ mem_available_bytes' = r.mem_available_bytes
    /\ mem_regions_count' = r.mem_regions_count
    /\ fault' = r.fault

Call(op, ptr, size, ret) == [op |-> op, ptr |-> ptr, size |-> size, ret |-> ret]

EmptyMap == [x \in {} |-> 0]
Without(f, S) == [x \in DOMAIN f \ S |-> f[x]]
With(f, k, v) == [x \in DOMAIN f \cup {k} |-> IF x = k THEN v ELSE f[x]]

\* ------------------------------------------------------------------- inputs
LowBase  == 4 * MEM_ALIGN_NUM
HighBase == TopBit + 16

HighRegion == <<Region(HighBase, 48)>>                  \* upper half of the address space
GapRegions == <<Region(LowBase, 40), Region(LowBase + 56, 32)>>
AdjRegions == <<Region(LowBase, 32), Region(LowBase + 32, 40)>>
OddRegions == <<Region(LowBase + 1, 46), Region(LowBase + 49, 14)>>  \* unaligned; too small once aligned
DownRegions == <<Region(LowBase + 56, 40), Region(LowBase, 40)>>     \* decreasing
LapRegions == <<Region(LowBase, 40), Region(LowBase + 32, 40)>>      \* overlapping
TinyRegion == <<Region(LowBase, 8)>>                                 \* nothing usable

WideRegion == <<Region(LowBase, 52)>>                                \* room for three blocks

RegionInputs == <<HighRegion, GapRegions, AdjRegions, OddRegions,
                  DownRegions, LapRegions, TinyRegion, WideRegion>>

\* the arrays the caller of Next may pass
HeapInputs == {i \in DOMAIN RegionInputs : RegionInputs[i] # WideRegion}

Sizes == {0, 1, 8, 24, TopBit - 1, WordMod - 4}

CallocArgs == { <<2, 4>>, <<0, 4>>, <<2, TopBit + 4>> }

ReallocSizes == {0, 1, 8, TopBit}

DataVals == {10}

\* -------------------------------------------------------------------- ghosts
\* bytes [a, a + n) and [b, b + k) have a byte in common
Overlap(a, n, b, k) == a < b + k /\ b < a + n

BlockOf(p) == (p - MEM_BLOCK_META_SIZE) % WordMod

Released(n, by) == [size |-> n, by |-> by, again |-> FALSE]

\* the allocator hands out r: a dangling copy of r now points into an allocation
Reissue(fr, r) == [x \in DOMAIN fr |-> IF x = r THEN [fr[x] EXCEPT !.again = TRUE] ELSE fr[x]]

\* size field of the block of p with the allocated tag stripped
StoredSize(m, p) == ClearBit(SizeOf(m, BlockOf(p)), TopBit)

RECURSIVE SumStored(_, _)
SumStored(m, ps) ==
    IF ps = {} THEN 0
    ELSE LET p == CHOOSE x \in ps : TRUE
         IN  StoredSize(m, p) + SumStored(m, ps \ {p})

\* how far mem_available_bytes is above the bytes that are not allocated
Drift == mem_available_bytes + SumStored(mem, DOMAIN live) - avail_init

DriftOk == Drift <= MaxDrift * MEM_ALIGN_NUM

MayAllocate == Cardinality(DOMAIN live) < MaxLive /\ DriftOk

\* --------------------------------------------------------------------- Init
Init ==
    /\ mem = EmptyMap
    /\ end_block = NULL
    /\ mem_alloc_bit = 0
    /\ mem_available_bytes = 0
    /\ mem_regions_count = 0
    /\ fault = FALSE
    /\ heap_regions = <<>>
    /\ avail_init = 0
    /\ live = EmptyMap
    /\ freed = EmptyMap
    /\ last = Call("none", NULL, 0, 0)

\* ------------------------------------------------------------------ actions
MemInit(i) ==
    /\ ~ fault
    /\ \E r \in {mem_init(G, RegionInputs[i])} :
         LET ran == end_block = NULL /\ RegionsOrdered(RegionInputs[i])
         IN  /\ Commit(r)
             /\ heap_regions' = IF ran THEN RegionInputs[i] ELSE heap_regions
             /\ avail_init' = IF ran THEN r.mem_available_bytes ELSE avail_init
             /\ last' = Call("init", NULL, i, r.ret)
    /\ UNCHANGED <<live, freed>>

MemMalloc(size) ==
    /\ ~ fault
    /\ MayAllocate
    /\ \E r \in {mem_malloc(G, size)} :
           /\ Commit(r)
           /\ live' = IF r.ret # NULL THEN With(live, r.ret, size) ELSE live
           /\ freed' = Reissue(freed, r.ret)
           /\ last' = Call("malloc", NULL, size, r.ret)
    /\ UNCHANGED <<heap_regions, avail_init>>

MemCalloc(nitems, size) ==
    /\ ~ fault
    /\ MayAllocate
    /\ \E r \in {mem_calloc(G, nitems, size)} :
           /\ Commit(r)
           /\ live' = IF r.ret # NULL
                      THEN With(live, r.ret, (size * nitems) % WordMod) ELSE live
           /\ freed' = Reissue(freed, r.ret)
           /\ last' = Call("calloc", nitems, size, r.ret)
    /\ UNCHANGED <<heap_regions, avail_init>>

\* mem_free of NULL or of a pointer the caller holds; keep: the caller does
\* not forget the pointer it has freed
MemFree(ptr, keep) ==
    /\ ~ fault
    /\ ptr = NULL \/ ptr \in DOMAIN live
    /\ LET done == ptr # NULL /\ FreeAccepts(G, BlockOf(ptr))
       IN  /\ Commit(mem_free(G, ptr))
           /\ live' = IF done THEN Without(live, {ptr}) ELSE live
           /\ freed' = IF done
                       THEN IF keep
                            THEN With(freed, ptr, Released(StoredSize(mem, ptr), "free"))
                            ELSE Without(freed, {ptr})
                       ELSE freed
           /\ last' = Call("free", ptr, 0, NULL)
    /\ UNCHANGED <<heap_regions, avail_init>>

MemRealloc(ptr, size, keep) ==
    /\ ~ fault
    /\ ptr = NULL \/ ptr \in DOMAIN live
    /\ size # 0 => IF ptr = NULL THEN MayAllocate ELSE DriftOk
    /\ \E r \in {mem_realloc(G, ptr, size)} :
         LET released == /\ ptr # NULL
                         /\ size = 0 \/ r.ret # NULL
                         /\ FreeAccepts(G, BlockOf(ptr))
             lv1 == IF released THEN Without(live, {ptr}) ELSE live
             fr1 == IF released
                    THEN IF keep
                         THEN With(freed, ptr, Released(StoredSize(mem, ptr),
                                                        IF size = 0 THEN "free" ELSE "realloc"))
                         ELSE Without(freed, {ptr})
                    ELSE freed
         IN  /\ Commit(r)
             /\ live' = IF r.ret # NULL THEN With(lv1, r.ret, size) ELSE lv1
             /\ freed' = Reissue(fr1, r.ret)
             /\ last' = Call("realloc", ptr, size, r.ret)
    /\ UNCHANGED <<heap_regions, avail_init>>

\* the caller fills the bytes it asked for with one value
Write(ptr, v) ==
    /\ ~ fault
    /\ ptr \in DOMAIN live
    /\ live[ptr] > 0
    /\ mem' = StoreBytes(mem, ptr, [i \in 1..live[ptr] |-> v])
    /\ last' = Call("write", ptr, v, NULL)
    /\ UNCHANGED <<end_block, mem_alloc_bit, mem_available_bytes, mem_regions_count,
                   fault, heap_regions, avail_init, live, freed>>

\* mem_free of a pointer that was freed and has not been handed out again; the
\* caller of NextDF never writes to memory
DoubleFree(ptr) ==
    /\ ~ fault
    /\ ptr \in DOMAIN freed
    /\ ~ freed[ptr].again
    /\ Commit(mem_free(G, ptr))
    /\ last' = Call("double_free", ptr, 0, NULL)
    /\ UNCHANGED <<heap_regions, avail_init, live, freed>>

Pointers == DOMAIN live \cup {NULL}

Next ==
    \/ \E i \in HeapInputs : MemInit(i)
    \/ \E size \in Sizes : MemMalloc(size)
    \/ \E a \in CallocArgs : MemCalloc(a[1], a[2])
    \/ \E ptr \in Pointers : MemFree(ptr, FALSE)
    \/ \E ptr \in Pointers, size \in ReallocSizes : MemRealloc(ptr, size, FALSE)

Spec == Init /\ [][Next]_vars

\* a caller that writes to the memory it holds
DataInputs == {1}
DataSizes == {8}
DataReallocSizes == {1, 16}

NextData ==
    \/ \E i \in DataInputs : MemInit(i)
    \/ \E size \in DataSizes : MemMalloc(size)
    \/ \E ptr \in Pointers : MemFree(ptr, FALSE)
    \/ \E ptr \in Pointers, size \in DataReallocSizes : MemRealloc(ptr, size, FALSE)
    \/ \E ptr \in Pointers, v \in DataVals : Write(ptr, v)

SpecData == Init /\ [][NextData]_vars

\* a caller that may keep the pointers it has released
KeepInputs == {1}

NextKeep ==
    \/ \E i \in KeepInputs : MemInit(i)
    \/ \E size \in Sizes : MemMalloc(size)
    \/ \E ptr \in Pointers, keep \in BOOLEAN : MemFree(ptr, keep)
    \/ \E ptr \in Pointers, size \in ReallocSizes, keep \in BOOLEAN :
           MemRealloc(ptr, size, keep)

SpecKeep == Init /\ [][NextKeep]_vars

\* ... and may free them again
NextDF == NextKeep \/ \E ptr \in DOMAIN freed : DoubleFree(ptr)

SpecDF == Init /\ [][NextDF]_vars

\* a caller that allocates small blocks and frees them, in regions with room
\* for a block between two others
MergeInputs == {i \in DOMAIN RegionInputs :
                  RegionInputs[i] \in {WideRegion, GapRegions, AdjRegions}}
MergeSizes == {1, 8}

NextMerge ==
    \/ \E i \in MergeInputs : MemInit(i)
    \/ \E size \in MergeSizes : MemMalloc(size)
    \/ \E ptr \in Pointers : MemFree(ptr, FALSE)

SpecMerge == Init /\ [][NextMerge]_vars

\* ==================================================================== claims
H == MEM_BLOCK_META_SIZE
A == MEM_ALIGN_NUM

\* align_up(x, A), without wrap-around
AlignUp(x) == ((x + A - 1) \div A) * A
Need(size) == AlignUp(size) + H

Min(S) == CHOOSE x \in S : \A y \in S : x <= y

\* the blocks met by following next from start_block.next to NULL
RECURSIVE ListFrom(_, _, _)
ListFrom(m, b, fuel) ==
    IF b = NULL \/ fuel = 0 THEN {}
    ELSE {b} \cup ListFrom(m, NextOf(m, b), fuel - 1)
FreeList(m) == ListFrom(m, NextOf(m, StartBlockAddr), WalkFuel(m))

\* the regions mem_init accepted, after alignment, and their tail sentinels
Accepted == { [start |-> AlignedStart(heap_regions[i]), size |-> AlignedSize(heap_regions[i])] :
              i \in {j \in DOMAIN heap_regions : RegionUsed(heap_regions[j])} }
Sentinels == { r.start + r.size - H : r \in Accepted }

Initialized == end_block # NULL
LivePtrs == DOMAIN live

\* bytes [b, b + n) lie inside a block of the free list of m
OnFreeList(m, b, n) ==
    \E f \in FreeList(m) : f <= b /\ b + n <= f + SizeOf(m, f)

\* C1: the extents [block, block + stored size) of the outstanding allocations
\* are pairwise disjoint, disjoint from every block of the free list and from
\* every tail sentinel, and each lies inside one accepted region.
NoSharedBytes ==
    \A p \in LivePtrs :
        LET b == BlockOf(p)
            n == StoredSize(mem, p)
        IN  /\ \A q \in LivePtrs \ {p} : ~ Overlap(b, n, BlockOf(q), StoredSize(mem, q))
            /\ \A f \in FreeList(mem) : ~ Overlap(b, n, f, SizeOf(mem, f))
            /\ \A t \in Sentinels : ~ Overlap(b, n, t, H)
            /\ \E r \in Accepted : r.start <= b /\ b + n <= r.start + r.size

\* two allocations held in a heap of two regions, a free block between or after
C1Witness ==
    /\ Cardinality(LivePtrs) >= 2
    /\ Cardinality(Accepted) = 2
    /\ \E f \in FreeList(mem) : SizeOf(mem, f) > 0

\* C2: once every pointer returned has been freed, mem_available_bytes is back
\* at the value it had right after mem_init.
RoundTrip == (Initialized /\ LivePtrs = {}) => mem_available_bytes = avail_init

\* C3: on an initialized heap mem_malloc(size), 0 < size < 2^(w-1), returns
\* b + H for the lowest-address block b of the free list with size >= need,
\* a block that holds at least size payload bytes, and NULL when there is no
\* such block.
FirstFitStep ==
    (last'.op = "malloc" /\ Initialized /\ last'.size > 0 /\ last'.size < TopBit) =>
        LET need  == Need(last'.size)
            cands == {b \in FreeList(mem) : SizeOf(mem, b) >= need}
        IN  IF cands = {} THEN last'.ret = NULL
            ELSE /\ last'.ret = Min(cands) + H
                 /\ StoredSize(mem', last'.ret) - H >= last'.size
FirstFit == [][FirstFitStep]_vars

\* mem_malloc passed over a free block that was too small
C3Witness ==
    /\ last.op = "malloc"
    /\ last.ret # NULL
    /\ \E f \in FreeList(mem) : SizeOf(mem, f) > 0 /\ f < BlockOf(last.ret)

\* C4: mem_free of a pointer that has been freed and not handed out again
\* changes neither the free list, nor any header, nor mem_available_bytes.
DoubleFreeIgnored == [][last'.op = "double_free" => UNCHANGED cvars]_vars

\* C5: mem_malloc returns NULL and changes nothing when the allocator is not
\* initialized, size is 0, size or align_up(size, A) + H has the top bit set,
\* or no block of the free list is large enough.
MallocMustFail(size) ==
    \/ ~ Initialized
    \/ size = 0
    \/ size >= TopBit
    \/ Need(size) >= TopBit
    \/ \A b \in FreeList(mem) : SizeOf(mem, b) < Need(size)
MallocFailsCleanStep ==
    (last'.op = "malloc" /\ MallocMustFail(last'.size)) =>
        (last'.ret = NULL /\ UNCHANGED cvars)
MallocFailsClean == [][MallocFailsCleanStep]_vars

\* a size with the top bit set was refused although a block was free
C5Witness ==
    /\ last.op = "malloc"
    /\ last.size >= TopBit
    /\ last.ret = NULL
    /\ Initialized
    /\ \E f \in FreeList(mem) : SizeOf(mem, f) >= Need(1)

\* C6: mem_realloc(p, size) of a held p with size > 0 returns NULL when the
\* request cannot be met, and then the old block is still allocated (tag set,
\* next NULL, same size) and nothing else has changed.
ReallocFailsCleanStep ==
    (last'.op = "realloc" /\ last'.ptr \in LivePtrs /\ last'.size > 0) =>
        /\ MallocMustFail(last'.size) => last'.ret = NULL
        /\ last'.ret = NULL =>
              /\ UNCHANGED cvars
              /\ HasBit(SizeOf(mem', BlockOf(last'.ptr)), TopBit)
              /\ NextOf(mem', BlockOf(last'.ptr)) = NULL
              /\ StoredSize(mem', last'.ptr) = StoredSize(mem, last'.ptr)
ReallocFailsClean == [][ReallocFailsCleanStep]_vars

\* a request of valid size failed for want of a free block
C6Witness ==
    /\ last.op = "realloc"
    /\ last.ptr \in LivePtrs
    /\ last.size > 0
    /\ last.size < TopBit - H
    /\ last.ret = NULL

\* C7: when mem_realloc(p, size) of a held p with size > 0 returns q # NULL,
\* the first min(old payload size, size) bytes at q are the bytes that were at
\* p, the new block does not overlap the old one, and the old block is free.
ReallocKeepsContentsStep ==
    (last'.op = "realloc" /\ last'.ptr \in LivePtrs /\ last'.size > 0 /\ last'.ret # NULL) =>
        LET p   == last'.ptr
            q   == last'.ret
            old == StoredSize(mem, p)
            n   == IF old - H < last'.size THEN old - H ELSE last'.size
        IN  /\ \A i \in 0..(n - 1) : Peek(mem', q + i) = Peek(mem, p + i)
            /\ ~ Overlap(BlockOf(q), StoredSize(mem', q), BlockOf(p), old)
            /\ ~ HasBit(SizeOf(mem', BlockOf(p)), TopBit)
            /\ OnFreeList(mem', BlockOf(p), old)
ReallocKeepsContents == [][ReallocKeepsContentsStep]_vars

\* data the caller had written went to the new block
C7Witness ==
    /\ last.op = "realloc"
    /\ last.ptr # NULL
    /\ last.size > 1
    /\ last.ret # NULL
    /\ \A i \in 0..1 : Peek(mem, last.ret + i) \in DataVals
                       /\ Peek(mem, last.ptr + i) \in DataVals

\* C8 as stated: mem_malloc never returns a pointer that was the old pointer of
\* a successful mem_realloc.
ReallocOldNeverReturned ==
    ~ ( /\ last.op = "malloc"
        /\ last.ret # NULL
        /\ last.ret \in DOMAIN freed
        /\ freed[last.ret].by = "realloc" )

\* C8, amended: a successful mem_realloc(p, size), p # NULL, size > 0, returns
\* q # p and leaves the old block on the free list; mem_malloc may return p
\* afterwards, and whatever it returns was on the free list and not held.
ReallocRetiresStep ==
    /\ (last'.op = "realloc" /\ last'.ptr \in LivePtrs /\ last'.size > 0 /\ last'.ret # NULL) =>
          /\ last'.ret # last'.ptr
          /\ OnFreeList(mem', BlockOf(last'.ptr), StoredSize(mem, last'.ptr))
    /\ (last'.op = "malloc" /\ last'.ret # NULL) =>
          /\ last'.ret \notin LivePtrs
          /\ OnFreeList(mem, BlockOf(last'.ret), StoredSize(mem', last'.ret))
ReallocRetires == [][ReallocRetiresStep]_vars

\* mem_malloc has handed out the old pointer of a successful mem_realloc
C8Witness ==
    /\ last.op = "malloc"
    /\ last.ret \in DOMAIN freed
    /\ freed[last.ret].by = "realloc"
    /\ freed[last.ret].again

\* C9: when the block mem_malloc picks is at most 2*H larger than need, the
\* allocation takes the whole block and mem_available_bytes goes down by the
\* size of the whole block.
NoSplitChargeStep ==
    (last'.op = "malloc" /\ last'.ret # NULL
       /\ SizeOf(mem, BlockOf(last'.ret)) - Need(last'.size) <= 2 * H) =>
        /\ StoredSize(mem', last'.ret) = SizeOf(mem, BlockOf(last'.ret))
        /\ mem_available_bytes' = mem_available_bytes - SizeOf(mem, BlockOf(last'.ret))
NoSplitCharge == [][NoSplitChargeStep]_vars

\* C10: mem_init returns 0 and changes neither the static variables nor any
\* byte of memory when the allocator is initialized already or some region
\* starts below the end of the region before it.
Unordered(regions) ==
    \E i \in 2..Len(regions) :
        regions[i].start_addr < regions[i - 1].start_addr + regions[i - 1].size
InitRejectionCleanStep ==
    (last'.op = "init" /\ (Initialized \/ Unordered(RegionInputs[last'.size]))) =>
        (last'.ret = 0 /\ UNCHANGED cvars)
InitRejectionClean == [][InitRejectionCleanStep]_vars

\* a second mem_init was turned away while allocations were held
C10Witness ==
    /\ last.op = "init"
    /\ last.ret = 0
    /\ Initialized
    /\ LivePtrs # {}

\* C11: for a valid region array mem_init returns the number of regions whose
\* size, after the start is aligned up to A and the size truncated down to a
\* multiple of A, is >= H + A; each such region holds one free block at the
\* aligned start of size aligned size - H and a zero-size sentinel right after
\* it; the regions are linked in input order through the sentinels, the last
\* sentinel alone has next = NULL; mem_available_bytes is the sum of the sizes
\* of those first blocks.
FitStart(r) == AlignUp(r.start_addr)
FitSize(r) == ((r.size - (FitStart(r) - r.start_addr)) \div A) * A
Fits(regions) == {i \in DOMAIN regions : FitSize(regions[i]) >= H + A}
RECURSIVE SumFirstBlocks(_, _)
SumFirstBlocks(regions, I) ==
    IF I = {} THEN 0
    ELSE LET i == CHOOSE x \in I : TRUE
         IN  (FitSize(regions[i]) - H) + SumFirstBlocks(regions, I \ {i})
InitResultStep ==
    (last'.op = "init" /\ ~ Initialized /\ ~ Unordered(RegionInputs[last'.size])) =>
        LET regions == RegionInputs[last'.size]
            kept    == Fits(regions)
            tail(i) == FitStart(regions[i]) + FitSize(regions[i]) - H
            after(i) == {j \in kept : j > i}
        IN  /\ last'.ret = Cardinality(kept)
            /\ mem_available_bytes' = SumFirstBlocks(regions, kept)
            /\ kept # {} => NextOf(mem', StartBlockAddr) = FitStart(regions[Min(kept)])
            /\ FreeList(mem') = {FitStart(regions[i]) : i \in kept} \cup {tail(i) : i \in kept}
            /\ \A i \in kept :
                  /\ SizeOf(mem', FitStart(regions[i])) = FitSize(regions[i]) - H
                  /\ NextOf(mem', FitStart(regions[i])) = tail(i)
                  /\ SizeOf(mem', tail(i)) = 0
                  /\ NextOf(mem', tail(i)) =
                        IF after(i) = {} THEN NULL ELSE FitStart(regions[Min(after(i))])
InitResult == [][InitResultStep]_vars

\* mem_init took the first of two regions, unaligned, and dropped the second
C11Witness ==
    /\ last.op = "init"
    /\ last.ret = 1
    /\ Len(heap_regions) = 2
    /\ heap_regions[1].start_addr % A # 0

\* C12: every pointer held by the caller is a multiple of A, every header
\* address (allocated block, block of the free list, sentinel) is a multiple
\* of A, and every stored size with the tag stripped is a multiple of A, also
\* when a region given to mem_init is not aligned.
AllAligned ==
    /\ \A p \in LivePtrs :
          /\ p % A = 0
          /\ BlockOf(p) % A = 0
          /\ StoredSize(mem, p) % A = 0
    /\ \A f \in FreeList(mem) :
          /\ f % A = 0
          /\ ClearBit(SizeOf(mem, f), TopBit) % A = 0
    /\ \A i \in Fits(heap_regions) :
          (FitStart(heap_regions[i]) + FitSize(heap_regions[i]) - H) % A = 0

\* an allocation and a split remainder in a region given at an odd address
C12Witness ==
    /\ heap_regions # <<>>
    /\ heap_regions[1].start_addr % A # 0
    /\ LivePtrs # {}
    /\ \E f \in FreeList(mem) : SizeOf(mem, f) > 0

\* the tail sentinels of the accepted regions, from the array mem_init was given
Tails == { FitStart(heap_regions[i]) + FitSize(heap_regions[i]) - H : i \in Fits(heap_regions) }

\* C13: once every pointer handed out has been freed, the blocks of the free
\* list other than the tail sentinels are one per accepted region, at the
\* region's aligned start, with the size the block had right after mem_init.
FullyCoalesced ==
    (Initialized /\ LivePtrs = {}) =>
        /\ FreeList(mem) \ Tails = { FitStart(heap_regions[i]) : i \in Fits(heap_regions) }
        /\ \A i \in Fits(heap_regions) :
              SizeOf(mem, FitStart(heap_regions[i])) = FitSize(heap_regions[i]) - H

\* the last pointer held has just been freed in a heap of two regions
C13Witness ==
    /\ last.op = "free"
    /\ last.ptr # NULL
    /\ LivePtrs = {}
    /\ Cardinality(Fits(heap_regions)) = 2

\* C14: after a successful mem_init, mem_available_bytes plus the stored sizes
\* (tag stripped) of the blocks held plus H for the sentinel of each accepted
\* region is the sum of the aligned sizes of the accepted regions.
Conservation ==
    Initialized =>
        mem_available_bytes + SumStored(mem, LivePtrs) + H * Cardinality(Fits(heap_regions))
          = SumFirstBlocks(heap_regions, Fits(heap_regions)) + H * Cardinality(Fits(heap_regions))

\* the list from b climbs in address up to eb, and eb ends it
RECURSIVE Climbs(_, _, _, _)
Climbs(m, b, eb, fuel) ==
    IF b = eb THEN NextOf(m, b) = NULL
    ELSE /\ fuel > 0
         /\ b # NULL
         /\ NextOf(m, b) > b
         /\ Climbs(m, NextOf(m, b), eb, fuel - 1)

\* C15: on an initialized heap the next links from start_block.next visit
\* blocks in strictly increasing address order, none twice, and end at
\* end_block, whose next is NULL; no walk of mem_malloc or insert_free_block
\* fails to end or dereferences NULL.
ListShape ==
    /\ Initialized => Climbs(mem, NextOf(mem, StartBlockAddr), end_block, WalkFuel(mem))
    /\ ~ fault

\* a free has put a block back on the list of two regions as a node of its
\* own, after a free block below it, while another block is held
C15Witness ==
    /\ last.op = "free"
    /\ last.ptr # NULL
    /\ LivePtrs # {}
    /\ Cardinality(Fits(heap_regions)) = 2
    /\ BlockOf(last.ptr) \in FreeList(mem)
    /\ \E f \in FreeList(mem) : SizeOf(mem, f) > 0 /\ f < BlockOf(last.ptr)

\* C16: for every two consecutive blocks b1, b2 of the free list, neither of
\* them a tail sentinel, b1 + b1.size < b2: free blocks that touch have been
\* merged, by mem_free and by the insertion of a split remainder alike.
NoAdjacentFree ==
    Initialized =>
        \A b1 \in FreeList(mem) \ Tails :
            (NextOf(mem, b1) # NULL /\ NextOf(mem, b1) \notin Tails) =>
                b1 + SizeOf(mem, b1) < NextOf(mem, b1)

\* a free has merged the block with the free block before it and the free
\* block after it at once
C16Witness ==
    /\ last.op = "free"
    /\ last.ptr # NULL
    /\ \E f \in FreeList(mem) :
          /\ f < BlockOf(last.ptr)
          /\ f + SizeOf(mem, f) > BlockOf(last.ptr) + SizeOf(mem, BlockOf(last.ptr))
          /\ SizeOf(mem, BlockOf(last.ptr)) > 0

\* C17: every block the caller holds has the top bit of size set and next =
\* NULL; every block of the free list, the sentinels and the blocks made by
\* splits and merges included, has the top bit of size clear.
AllocBitDiscipline ==
    /\ \A p \in LivePtrs :
          /\ HasBit(SizeOf(mem, BlockOf(p)), TopBit)
          /\ NextOf(mem, BlockOf(p)) = NULL
    /\ \A f \in FreeList(mem) : ~ HasBit(SizeOf(mem, f), TopBit)

\* a block has gone back to the free list while another is held
C17Witness ==
    /\ last.op = "free"
    /\ last.ptr # NULL
    /\ LivePtrs # {}
    /\ BlockOf(last.ptr) \in FreeList(mem)

\* C18: with two or more accepted regions, separated by a gap or contiguous,
\* every free block lies in one region and its extent [b, b + b.size) ends at or
\* before that region's tail sentinel: no block is merged with free space of
\* another region.
NoCrossRegion ==
    Cardinality(Fits(heap_regions)) >= 2 =>
        \A f \in FreeList(mem) \ Tails :
            \E i \in Fits(heap_regions) :
                /\ FitStart(heap_regions[i]) <= f
                /\ f + SizeOf(mem, f) <= FitStart(heap_regions[i]) + FitSize(heap_regions[i]) - H

\* two contiguous regions: a block that ends at the sentinel of the first has
\* been freed while the first block of the second is free
C18Witness ==
    /\ heap_regions = AdjRegions
    /\ last.op = "free"
    /\ last.ptr # NULL
    /\ \E f \in FreeList(mem) :
          /\ f <= BlockOf(last.ptr)
          /\ f + SizeOf(mem, f) = FitStart(AdjRegions[1]) + FitSize(AdjRegions[1]) - H
    /\ FitStart(AdjRegions[2]) \in FreeList(mem)
    /\ SizeOf(mem, FitStart(AdjRegions[2])) > 0

\* C19: after mem_init the tail sentinel of every accepted region, not only
\* the last, is a node of the free list reachable from start_block, with size
\* 0: neither the insertion of a split remainder nor mem_free unlinks one.
SentinelsKept ==
    Initialized => \A t \in Tails : t \in FreeList(mem) /\ SizeOf(mem, t) = 0

\* C20: in every successful mem_realloc(p, size) of a held p with size > 0 the
\* bytes the copy reads, [p, p + min(stored old size, size)), end at or before
\* the end of the old block, old header address + stored old size.
CopyInsideOldStep ==
    (last'.op = "realloc" /\ last'.ptr \in LivePtrs /\ last'.size > 0 /\ last'.ret # NULL) =>
        last'.ptr + ReallocCopyLen(StoredSize(mem, last'.ptr), last'.size)
          <= BlockOf(last'.ptr) + StoredSize(mem, last'.ptr)
CopyInsideOld == [][CopyInsideOldStep]_vars

====
